---- MODULE Spec2Model ----
(***************************************************************************)
(* VIREON Mensa engine and solver: vireon_mensa_engine.py generates a      *)
(* question from the key (test_id, question_idx), vireon_mensa_solver.py   *)
(* re-derives the answer from the same key.                                *)
(*                                                                         *)
(* Conventions of the translation:                                         *)
(*  - a Python call's outcome is a record [raised, value]: raised is       *)
(*    "none" when the call returns value, else the exception's name;       *)
(*  - a Python str built from numbers is a sequence of one-character       *)
(*    strings (Str, _to_base); the fixed words of an f-string are left     *)
(*    out and its interpolated values are kept, in order, as the prompt;   *)
(*  - the arrow, shape and fill glyphs are written as ASCII names;         *)
(*  - a Python list index i (0-based) is the TLA+ index i + 1.             *)
(***************************************************************************)
EXTENDS Integers, Sequences, FiniteSets, TLC

VARIABLES
    test_id,        \* the arguments of the caller's pair of calls
    question_idx,
    question,       \* the outcome of generate_question(test_id, question_idx)
    answer,         \* the outcome of solve_question(test_id, question_idx)
    iter,           \* the generator object iter_all_tests() returned
    yielded,        \* the outcome of the last next() on it (Headers of the list)
    first,          \* per sampled key, the outcome of its first call
    last,           \* the most recent call of the repeating caller
    frame           \* the frame of a direct call of _to_base(n, base)

vars ==
    <<test_id, question_idx, question, answer, iter, yielded, first, last,
      frame>>

NUM_TESTS == 1000
QUESTIONS_PER_TEST == 100

\* How far beyond the valid ranges the callers' arguments are drawn.
OutOfRange == 2

(***************************************************************************)
(* Python semantics used by both files.                                    *)
(***************************************************************************)

\* a % b: the sign of the result follows the divisor; b = 0 raises
\* ZeroDivisionError, which the caller of PyMod reports through Faults
\* (the 0 here is never returned to the program).
PyMod(a, b) ==
    IF b > 0 THEN a % b
    ELSE IF b < 0 THEN -((-a) % (-b))
    ELSE 0

\* a // b, floor division; b = 0 as for PyMod.
PyFloorDiv(a, b) ==
    IF b > 0 THEN a \div b
    ELSE IF b < 0 THEN (-a) \div (-b)
    ELSE 0

\* list[i]: 0-based, a negative i counts from the end, anything else raises
\* IndexError (reported through Faults; the "IndexError" token is not a value
\* the program sees).
PyIndex(list, i) ==
    IF 0 <= i /\ i < Len(list) THEN list[i + 1]
    ELSE IF -Len(list) <= i /\ i < 0 THEN list[Len(list) + i + 1]
    ELSE "IndexError"

DecimalDigits == <<"0", "1", "2", "3", "4", "5", "6", "7", "8", "9">>

RECURSIVE StrNat(_)
StrNat(n) ==
    IF n < 10 THEN <<DecimalDigits[n + 1]>>
    ELSE Append(StrNat(n \div 10), DecimalDigits[(n % 10) + 1])

\* str(n) of an int.
Str(n) == IF n < 0 THEN <<"-">> \o StrNat(-n) ELSE StrNat(n)

\* The exception a handler raises, given the divisors it divides by and the
\* <<index, length>> pairs of its list accesses, both in program order; "none"
\* when it returns.  Every handler evaluates its computed divisors (group,
\* the moduli, the bases) before the list access that follows them, so a zero
\* divisor is the first fault.
Faults(divisors, indexings) ==
    IF \E i \in 1..Len(divisors) : divisors[i] = 0 THEN "ZeroDivisionError"
    ELSE IF \E i \in 1..Len(indexings) :
                ~(-indexings[i][2] <= indexings[i][1]
                    /\ indexings[i][1] < indexings[i][2])
         THEN "IndexError"
    ELSE "none"

Return(v) == [raised |-> "none", value |-> v]
Raise(e) == [raised |-> e, value |-> <<>>]
NotCalled == [raised |-> "not called", value |-> <<>>]

(***************************************************************************)
(* Domain 1: numeric sequences (Q 1-15).                                   *)
(***************************************************************************)

\* missing_pos = 2 + (local % 3), the 0-based hidden position (engine).
generate_numeric_missing_pos(local) == 2 + PyMod(local, 3)

\* The local variables of generate_numeric_question at its return.
generate_numeric_question_locals(t, qi) ==
    LET local == qi
        length == 7
        base == PyMod(3 * t + 5 * local, 97) + 10
        alpha == PyMod(2 * t + local, 11) + 1
        beta == PyMod(t + 3 * local, 7) + 1
        even_offset == PyMod(t * local, 9)
        odd_offset == PyMod(t + local, 9)
        seq == [k \in 1..length |->
                  base + alpha * k + beta * (k * k)
                    + (IF PyMod(k, 2) = 0 THEN even_offset ELSE odd_offset)]
        missing_pos == generate_numeric_missing_pos(local)
        shown == [i \in 1..length |->
                    IF i - 1 = missing_pos THEN <<"?">> ELSE Str(seq[i])]
    IN [local |-> local, length |-> length, base |-> base, alpha |-> alpha,
        beta |-> beta, even_offset |-> even_offset, odd_offset |-> odd_offset,
        seq |-> seq, missing_pos |-> missing_pos, shown |-> shown,
        divisors |-> <<97, 11, 7, 9, 9, 2, 3>>,
        indexings |-> <<>>]

generate_numeric_question(t, qi) ==
    LET L == generate_numeric_question_locals(t, qi)
        f == Faults(L.divisors, L.indexings)
    IN IF f # "none" THEN Raise(f)
       ELSE Return([test_id |-> t, question_idx |-> qi,
                    domain |-> "numeric_sequence_hard",
                    prompt |-> <<Str(t), Str(qi), L.shown>>,
                    meta |-> [local_index |-> L.local, length |-> L.length,
                              pattern_hint |->
                        "mix of linear, quadratic, and parity-based offsets"]])

\* _solve_numeric_missing_pos taken modulo the sequence length.
_solve_numeric_missing_pos_wide(local) == 2 + PyMod(local, 7)

\* missing_pos = 2 + (local % 3), the 0-based hidden position (solver).
_solve_numeric_missing_pos(local) == 2 + PyMod(local, 3)

\* The local variables of _solve_numeric at its return.
_solve_numeric_locals(t, qi) ==
    LET local == qi
        length == 7
        base == PyMod(3 * t + 5 * local, 97) + 10
        alpha == PyMod(2 * t + local, 11) + 1
        beta == PyMod(t + 3 * local, 7) + 1
        even_offset == PyMod(t * local, 9)
        odd_offset == PyMod(t + local, 9)
        seq == [k \in 1..length |->
                  base + alpha * k + beta * (k * k)
                    + (IF PyMod(k, 2) = 0 THEN even_offset ELSE odd_offset)]
        missing_pos == _solve_numeric_missing_pos(local)
    IN [local |-> local, length |-> length, base |-> base, alpha |-> alpha,
        beta |-> beta, even_offset |-> even_offset, odd_offset |-> odd_offset,
        seq |-> seq, missing_pos |-> missing_pos,
        divisors |-> <<97, 11, 7, 9, 9, 2, 3>>,
        indexings |-> << <<missing_pos, Len(seq)>> >>]

_solve_numeric(t, qi) ==
    LET L == _solve_numeric_locals(t, qi)
        f == Faults(L.divisors, L.indexings)
    IN IF f # "none" THEN Raise(f)
       ELSE Return(PyIndex(L.seq, L.missing_pos))

(***************************************************************************)
(* Domain 2: logic propositions (Q 16-25).                                 *)
(***************************************************************************)

generate_logic_question_locals(t, qi) ==
    LET local == qi - 15
        pattern_type == PyMod(t + local, 4)
        stmt == IF pattern_type = 0 THEN "(p AND q) OR (NOT r)"
                ELSE IF pattern_type = 1 THEN "IF (p AND r) THEN (q XOR r)"
                ELSE IF pattern_type = 2 THEN "(p XOR q) AND (q OR r)"
                ELSE "IF (p OR q) THEN (NOT p AND r)"
    IN [local |-> local, pattern_type |-> pattern_type, stmt |-> stmt,
        divisors |-> <<4>>, indexings |-> <<>>]

generate_logic_question(t, qi) ==
    LET L == generate_logic_question_locals(t, qi)
        f == Faults(L.divisors, L.indexings)
    IN IF f # "none" THEN Raise(f)
       ELSE Return([test_id |-> t, question_idx |-> qi,
                    domain |-> "nested_logic_hard",
                    prompt |-> <<Str(t), Str(qi), Str(t), Str(L.local),
                                 L.stmt>>,
                    meta |-> [local_index |-> L.local,
                              statement_form |-> L.stmt,
                              prime_like_rule |->
                                "no divisors in {2,3,5,7} besides 1"]])

RECURSIVE _is_prime_like_from(_, _)
\* The for loop of _is_prime_like from the i-th element of (2, 3, 5, 7) on.
_is_prime_like_from(n, i) ==
    LET ds == <<2, 3, 5, 7>>
    IN IF i > Len(ds) THEN TRUE
       ELSE IF PyMod(n, ds[i]) = 0 THEN FALSE
       ELSE _is_prime_like_from(n, i + 1)

_is_prime_like(n) == _is_prime_like_from(n, 1)

\* Xor written as inclusive or.
Xor_inclusive(x, y) == x \/ y

\* Python's ^ on two bools.
Xor(x, y) == x # y

_solve_logic_locals(t, qi) ==
    LET local == qi - 15
        pattern_type == PyMod(t + local, 4)
        p == (PyMod(t, 2) = 0)
        q == (PyMod(local, 3) = 0)
        r == _is_prime_like(t + local)
        val == IF pattern_type = 0 THEN (p /\ q) \/ ~r
               ELSE IF pattern_type = 1 THEN ~(p /\ r) \/ Xor(q, r)
               ELSE IF pattern_type = 2 THEN Xor(p, q) /\ (q \/ r)
               ELSE ~(p \/ q) \/ (~p /\ r)
    IN [local |-> local, pattern_type |-> pattern_type, p |-> p, q |-> q,
        r |-> r, val |-> val,
        divisors |-> <<4, 2, 3, 2, 3, 5, 7>>, indexings |-> <<>>]

_solve_logic(t, qi) ==
    LET L == _solve_logic_locals(t, qi)
        f == Faults(L.divisors, L.indexings)
    IN IF f # "none" THEN Raise(f)
       ELSE Return(IF L.val THEN "TRUE" ELSE "FALSE")

(***************************************************************************)
(* Domain 3: dual arrow cycles (Q 26-35).                                  *)
(* primary is the cycle up, right, down, left; secondary is the cycle      *)
(* up-left, up-right, down-right, down-left.                               *)
(***************************************************************************)

primary == <<"UP", "RIGHT", "DOWN", "LEFT">>
secondary == <<"UPLEFT", "UPRIGHT", "DOWNRIGHT", "DOWNLEFT">>

generate_spatial_like_question_locals(t, qi) ==
    LET local == qi - 25
        N1 == 7 * t + 11 * local
        N2 == 5 * t - 3 * local
    IN [local |-> local, N1 |-> N1, N2 |-> N2,
        divisors |-> <<>>, indexings |-> <<>>]

generate_spatial_like_question(t, qi) ==
    LET L == generate_spatial_like_question_locals(t, qi)
        f == Faults(L.divisors, L.indexings)
    IN IF f # "none" THEN Raise(f)
       ELSE Return([test_id |-> t, question_idx |-> qi,
                    domain |-> "dual_arrow_cycle_hard",
                    prompt |-> <<Str(t), Str(qi), primary, secondary,
                                 Str(t), Str(L.local), Str(t), Str(L.local)>>,
                    meta |-> [local_index |-> L.local,
                              primary_cycle |-> primary,
                              secondary_cycle |-> secondary,
                              N1_expression |->
                                  <<"7*", Str(t), " + 11*", Str(L.local)>>,
                              N2_expression |->
                                  <<"5*", Str(t), " - 3*", Str(L.local)>>]])

\* _solve_arrows_index with a remainder that takes the sign of the dividend.
_solve_arrows_index_trunc(N) ==
    IF N - 1 >= 0 THEN (N - 1) % 4 ELSE -((-(N - 1)) % 4)

\* The 0-based cycle index of the 1-based position N: (N - 1) % 4.
_solve_arrows_index(N) == PyMod(N - 1, 4)

_solve_arrows_locals(t, qi) ==
    LET local == qi - 25
        N1 == 7 * t + 11 * local
        N2 == 5 * t - 3 * local
        i1 == _solve_arrows_index(N1)
        i2 == _solve_arrows_index(N2)
    IN [local |-> local, N1 |-> N1, N2 |-> N2, i1 |-> i1, i2 |-> i2,
        A |-> PyIndex(primary, i1), B |-> PyIndex(secondary, i2),
        divisors |-> <<4, 4>>,
        indexings |-> << <<i1, Len(primary)>>, <<i2, Len(secondary)>> >>]

\* The returned string "(A, B)" is kept as the pair of its two arrows.
_solve_arrows(t, qi) ==
    LET L == _solve_arrows_locals(t, qi)
        f == Faults(L.divisors, L.indexings)
    IN IF f # "none" THEN Raise(f)
       ELSE Return(<<L.A, L.B>>)

(***************************************************************************)
(* Domain 4: letter analogies (Q 36-45).                                   *)
(***************************************************************************)

Alphabet ==
    <<"A", "B", "C", "D", "E", "F", "G", "H", "I", "J", "K", "L", "M",
      "N", "O", "P", "Q", "R", "S", "T", "U", "V", "W", "X", "Y", "Z">>

\* enc(pos): chr(ord('A') + (pos % 26)), the same nested function in both files.
enc(pos) == Alphabet[PyMod(pos, 26) + 1]

\* a = (2*test_id + 1) % 26, then a = (a + 1) % 26 if a is even (engine).
generate_letter_question_a(t) ==
    LET a == PyMod(2 * t + 1, 26)
    IN IF PyMod(a, 2) = 0 THEN PyMod(a + 1, 26) ELSE a

generate_letter_question_locals(t, qi) ==
    LET local == qi - 35
        a == generate_letter_question_a(t)
        b == PyMod(3 * local + t, 26)
        x1 == PyMod(5 * t + local, 26)
        x2 == PyMod(x1 + 13, 26)
        A1 == enc(x1)
        B1 == enc(PyMod(a * x1 + b, 26))
        A2 == enc(x2)
    IN [local |-> local, a |-> a, b |-> b, x1 |-> x1, x2 |-> x2,
        A1 |-> A1, B1 |-> B1, A2 |-> A2,
        divisors |-> <<26, 2, 26, 26, 26, 26, 26, 26, 26, 26>>,
        indexings |-> <<>>]

generate_letter_question(t, qi) ==
    LET L == generate_letter_question_locals(t, qi)
        f == Faults(L.divisors, L.indexings)
    IN IF f # "none" THEN Raise(f)
       ELSE Return([test_id |-> t, question_idx |-> qi,
                    domain |-> "letter_analogy_hard",
                    prompt |-> <<Str(t), Str(qi), L.A1, L.B1, L.A2>>,
                    meta |-> [local_index |-> L.local, a_mod_26 |-> L.a,
                              b_mod_26 |-> L.b,
                              example_input_index |-> L.x1,
                              query_input_index |-> L.x2]])

\* _solve_letter_a with the coefficient of test_id mistyped.
_solve_letter_a_coeff(t) ==
    LET a == PyMod(3 * t + 1, 26)
    IN IF PyMod(a, 2) = 0 THEN PyMod(a + 1, 26) ELSE a

\* a = (2*test_id + 1) % 26, then a = (a + 1) % 26 if a is even (solver).
_solve_letter_a(t) ==
    LET a == PyMod(2 * t + 1, 26)
    IN IF PyMod(a, 2) = 0 THEN PyMod(a + 1, 26) ELSE a

_solve_letter_locals(t, qi) ==
    LET local == qi - 35
        a == _solve_letter_a(t)
        b == PyMod(3 * local + t, 26)
        x1 == PyMod(5 * t + local, 26)
        x2 == PyMod(x1 + 13, 26)
        answer_index == PyMod(a * x2 + b, 26)
    IN [local |-> local, a |-> a, b |-> b, x1 |-> x1, x2 |-> x2,
        answer_index |-> answer_index,
        divisors |-> <<26, 2, 26, 26, 26, 26, 26, 26>>,
        indexings |-> <<>>]

_solve_letter(t, qi) ==
    LET L == _solve_letter_locals(t, qi)
        f == Faults(L.divisors, L.indexings)
    IN IF f # "none" THEN Raise(f)
       ELSE Return(enc(L.answer_index))

(***************************************************************************)
(* Domain 5: word-style arithmetic stories (Q 46-55).                      *)
(***************************************************************************)

\* group = 2 + (test_id % 4), the number of teams (engine).
generate_word_question_group(t) == 2 + PyMod(t, 4)

generate_word_question_locals(t, qi) ==
    LET local == qi - 45
        base_items == 4 + PyMod(t, 9)
        daily_gain == 1 + PyMod(local, 5)
        days == 3 + PyMod(t + local, 4)
        group == generate_word_question_group(t)
        bonus_factor == 1 + PyMod(t * local, 3)
        loss == PyMod(base_items + daily_gain, group + 1)
    IN [local |-> local, base_items |-> base_items,
        daily_gain |-> daily_gain, days |-> days, group |-> group,
        bonus_factor |-> bonus_factor, loss |-> loss,
        divisors |-> <<9, 5, 4, 4, 3, group + 1>>,
        indexings |-> <<>>]

generate_word_question(t, qi) ==
    LET L == generate_word_question_locals(t, qi)
        f == Faults(L.divisors, L.indexings)
    IN IF f # "none" THEN Raise(f)
       ELSE Return([test_id |-> t, question_idx |-> qi,
                    domain |-> "word_arithmetic_hard",
                    prompt |-> <<Str(t), Str(qi), Str(L.base_items),
                                 Str(L.daily_gain), Str(L.days),
                                 Str(L.bonus_factor), Str(L.loss),
                                 Str(L.group)>>,
                    meta |-> [local_index |-> L.local,
                              base_items |-> L.base_items,
                              daily_gain |-> L.daily_gain,
                              days |-> L.days,
                              bonus_factor |-> L.bonus_factor,
                              loss |-> L.loss,
                              groups |-> L.group]])

\* group = 2 + (test_id % 4), the number of teams (solver).
_solve_word_group(t) == 2 + PyMod(t, 4)

_solve_word_locals(t, qi) ==
    LET local == qi - 45
        base_items == 4 + PyMod(t, 9)
        daily_gain == 1 + PyMod(local, 5)
        days == 3 + PyMod(t + local, 4)
        group == _solve_word_group(t)
        bonus_factor == 1 + PyMod(t * local, 3)
        loss == PyMod(base_items + daily_gain, group + 1)
        total == (base_items + daily_gain * days) * bonus_factor - loss
    IN [local |-> local, base_items |-> base_items,
        daily_gain |-> daily_gain, days |-> days, group |-> group,
        bonus_factor |-> bonus_factor, loss |-> loss, total |-> total,
        divisors |-> <<9, 5, 4, 4, 3, group + 1, group>>,
        indexings |-> <<>>]

_solve_word(t, qi) ==
    LET L == _solve_word_locals(t, qi)
        f == Faults(L.divisors, L.indexings)
    IN IF f # "none" THEN Raise(f)
       ELSE Return(PyFloorDiv(L.total, L.group))

(***************************************************************************)
(* Domain 6: Raven-style 3x3 matrices (Q 56-70).                           *)
(* A cell's f-string "{shape}{fill}({orientation})" is kept as the triple   *)
(* <<shape, fill, orientation>>.                                           *)
(***************************************************************************)

shapes == <<"TRIANGLE", "SQUARE", "CIRCLE", "STAR">>
orientations == <<"0", "90", "180", "270">>
fills == <<"EMPTY", "HALF", "FULL">>
hints ==
    <<"Row-wise, orientation changes in fixed increments.",
      "Column-wise, fill levels behave like addition modulo 3.",
      "Shapes drift systematically across rows and columns.",
      "Some rows can be interpreted as an 'xor' of feature patterns.">>

\* cell_symbol(r, c) of the engine, closed over base_idx, base_orient, base_fill.
generate_raven_cell_symbol(base_idx, base_orient, base_fill, r, c) ==
    LET s_idx == PyMod(base_idx + r + 2 * c, Len(shapes))
        o_idx == PyMod(base_orient + 2 * r + c, 4)
        f_idx == PyMod(base_fill + r + c, 3)
    IN [s_idx |-> s_idx, o_idx |-> o_idx, f_idx |-> f_idx,
        symbol |-> <<PyIndex(shapes, s_idx), PyIndex(fills, f_idx),
                     PyIndex(orientations, o_idx)>>]

\* missing_rc of the engine, from missing_mode.
generate_raven_missing_rc(missing_mode) ==
    IF missing_mode = 0 THEN <<2, 2>>
    ELSE IF missing_mode = 1 THEN <<1, 1>>
    ELSE <<0, 2>>

generate_raven_matrix_question_locals(t, qi) ==
    LET local == qi - 55
        base_idx == PyMod(t + local, Len(shapes))
        base_orient == PyMod(2 * t + local, 4)
        base_fill == PyMod(3 * t + 2 * local, 3)
        rule_type == PyMod(t + 2 * local, 4)
        missing_mode == PyMod(t + local, 3)
        cell(r, c) ==
            generate_raven_cell_symbol(base_idx, base_orient, base_fill, r, c)
        full_grid == [r \in 1..3 |-> [c \in 1..3 |-> cell(r - 1, c - 1).symbol]]
        missing_rc == generate_raven_missing_rc(missing_mode)
        mr == missing_rc[1]
        mc == missing_rc[2]
        grid == [r \in 1..3 |-> [c \in 1..3 |->
                    IF r - 1 = mr /\ c - 1 = mc THEN <<" ? ">>
                    ELSE full_grid[r][c]]]
        cellIndexings ==
            [i \in 1..27 |->
                LET k == (i - 1) \div 3
                    x == cell(k \div 3, k % 3)
                IN IF (i - 1) % 3 = 0 THEN <<x.s_idx, Len(shapes)>>
                   ELSE IF (i - 1) % 3 = 1 THEN <<x.f_idx, Len(fills)>>
                   ELSE <<x.o_idx, Len(orientations)>>]
    IN [local |-> local, base_idx |-> base_idx, base_orient |-> base_orient,
        base_fill |-> base_fill, rule_type |-> rule_type,
        missing_mode |-> missing_mode, full_grid |-> full_grid,
        mr |-> mr, mc |-> mc, grid |-> grid,
        hint |-> PyIndex(hints, rule_type),
        divisors |-> <<Len(shapes), 4, 3, 4, 3>>,
        indexings |-> cellIndexings
                        \o << <<mr, 3>>, <<mc, 3>>, <<rule_type, Len(hints)>> >>]

generate_raven_matrix_question(t, qi) ==
    LET L == generate_raven_matrix_question_locals(t, qi)
        f == Faults(L.divisors, L.indexings)
    IN IF f # "none" THEN Raise(f)
       ELSE Return([test_id |-> t, question_idx |-> qi,
                    domain |-> "raven_matrix_hard",
                    prompt |-> <<Str(t), Str(qi), L.grid, L.hint>>,
                    meta |-> [local_index |-> L.local,
                              rule_type |-> L.rule_type,
                              missing_cell |-> [row |-> L.mr, col |-> L.mc]]])

\* cell_symbol(r, c) of the solver.
_solve_raven_cell_symbol(base_idx, base_orient, base_fill, r, c) ==
    LET s_idx == PyMod(base_idx + r + 2 * c, Len(shapes))
        o_idx == PyMod(base_orient + 2 * r + c, 4)
        f_idx == PyMod(base_fill + r + c, 3)
    IN [s_idx |-> s_idx, o_idx |-> o_idx, f_idx |-> f_idx,
        symbol |-> <<PyIndex(shapes, s_idx), PyIndex(fills, f_idx),
                     PyIndex(orientations, o_idx)>>]

\* _solve_raven's missing cell with row and column of the top-right case
\* exchanged.
_solve_raven_missing_rc_transposed(missing_mode) ==
    IF missing_mode = 0 THEN <<2, 2>>
    ELSE IF missing_mode = 1 THEN <<1, 1>>
    ELSE <<2, 0>>

\* mr, mc of the solver, from missing_mode.
_solve_raven_missing_rc(missing_mode) ==
    IF missing_mode = 0 THEN <<2, 2>>
    ELSE IF missing_mode = 1 THEN <<1, 1>>
    ELSE <<0, 2>>

_solve_raven_locals(t, qi) ==
    LET local == qi - 55
        base_idx == PyMod(t + local, Len(shapes))
        base_orient == PyMod(2 * t + local, 4)
        base_fill == PyMod(3 * t + 2 * local, 3)
        missing_mode == PyMod(t + local, 3)
        missing_rc == _solve_raven_missing_rc(missing_mode)
        mr == missing_rc[1]
        mc == missing_rc[2]
        x == _solve_raven_cell_symbol(base_idx, base_orient, base_fill, mr, mc)
    IN [local |-> local, base_idx |-> base_idx, base_orient |-> base_orient,
        base_fill |-> base_fill, missing_mode |-> missing_mode,
        mr |-> mr, mc |-> mc, cell |-> x,
        divisors |-> <<Len(shapes), 4, 3, 3, Len(shapes), 4, 3>>,
        indexings |-> << <<x.s_idx, Len(shapes)>>, <<x.f_idx, Len(fills)>>,
                         <<x.o_idx, Len(orientations)>> >>]

_solve_raven(t, qi) ==
    LET L == _solve_raven_locals(t, qi)
        f == Faults(L.divisors, L.indexings)
    IN IF f # "none" THEN Raise(f)
       ELSE Return(L.cell.symbol)

(***************************************************************************)
(* Helper: integer -> base representation.                                 *)
(***************************************************************************)

digits ==
    <<"0", "1", "2", "3", "4", "5", "6", "7", "8", "9",
      "A", "B", "C", "D", "E", "F", "G", "H", "I", "J", "K", "L", "M",
      "N", "O", "P", "Q", "R", "S", "T", "U", "V", "W", "X", "Y", "Z">>

\* The loop body's assignment to out with the new digit put last.
_to_base_append(d, out) == out \o <<d>>

\* out = digits[x % base] + out: the new digit goes in front.
_to_base_prepend(d, out) == <<d>> \o out

RECURSIVE _to_base_loop(_, _, _, _)
\* The while loop of _to_base from the state (x, out); used collects the
\* <<index, length>> pairs of its accesses to digits.
_to_base_loop(x, base, out, used) ==
    IF x > 0
    THEN _to_base_loop(PyFloorDiv(x, base), base,
                       _to_base_prepend(PyIndex(digits, PyMod(x, base)), out),
                       Append(used, <<PyMod(x, base), Len(digits)>>))
    ELSE [out |-> out, indexings |-> used]

_to_base_run(n, base) ==
    IF n = 0 THEN [out |-> <<"0">>, indexings |-> <<>>]
    ELSE _to_base_loop(n, base, <<>>, <<>>)

_to_base(n, base) == _to_base_run(n, base).out

(***************************************************************************)
(* Domain 7: base conversion puzzles (Q 71-80).                            *)
(***************************************************************************)

\* base_y with the re-roll but without the fallback to 16.
generate_base_conversion_base_y_rerolled(t, local, base_x) ==
    LET y0 == 5 + PyMod(2 * t + local, 12)
        y1 == 5 + PyMod(3 * t + local, 12)
    IN IF y0 = base_x THEN y1 ELSE y0

\* base_y after the two collision checks against base_x.
generate_base_conversion_base_y(t, local, base_x) ==
    LET y0 == 5 + PyMod(2 * t + local, 12)
        y1 == 5 + PyMod(3 * t + local, 12)
    IN IF y0 = base_x
       THEN (IF y1 = base_x THEN 16 ELSE y1)
       ELSE y0

generate_base_conversion_question_locals(t, qi) ==
    LET local == qi - 70
        base_x == 5 + PyMod(t + local, 12)
        base_y == generate_base_conversion_base_y(t, local, base_x)
        N == 200 + 17 * t + 11 * local
        rx == _to_base_run(N, base_x)
        ry == _to_base_run(N, base_y)
        base_z == 5 + PyMod(t + 2 * local, 12)
        rz == _to_base_run(N, base_z)
    IN [local |-> local, base_x |-> base_x, base_y |-> base_y,
        base_z |-> base_z, N |-> N,
        repr_x |-> rx.out, repr_y |-> ry.out, repr_z |-> rz.out,
        divisors |-> <<12, 12, 12, base_x, base_y, 12, base_z>>,
        indexings |-> rx.indexings \o ry.indexings \o rz.indexings]

generate_base_conversion_question(t, qi) ==
    LET L == generate_base_conversion_question_locals(t, qi)
        f == Faults(L.divisors, L.indexings)
    IN IF f # "none" THEN Raise(f)
       ELSE Return([test_id |-> t, question_idx |-> qi,
                    domain |-> "base_conversion_hard",
                    prompt |-> <<Str(t), Str(qi), L.repr_x, Str(L.base_x),
                                 L.repr_y, Str(L.base_y), Str(L.base_z),
                                 L.repr_z>>,
                    meta |-> [local_index |-> L.local,
                              base_x |-> L.base_x, base_y |-> L.base_y,
                              base_z |-> L.base_z,
                              repr_x |-> L.repr_x, repr_y |-> L.repr_y,
                              repr_z |-> L.repr_z]])

_solve_base_locals(t, qi) ==
    LET local == qi - 70
        N == 200 + 17 * t + 11 * local
    IN [local |-> local, N |-> N, divisors |-> <<>>, indexings |-> <<>>]

_solve_base(t, qi) ==
    LET L == _solve_base_locals(t, qi)
        f == Faults(L.divisors, L.indexings)
    IN IF f # "none" THEN Raise(f)
       ELSE Return(L.N)

(***************************************************************************)
(* Domain 8: next figure, modulo-based shape counts (Q 81-90).             *)
(***************************************************************************)

shapeA_names == <<"CIRCLE", "SQUARE", "TRIANGLE">>
shapeB_names == <<"DIAMOND", "PLUS", "CROSS">>

\* generate_shape_sequence_modulus_A without its offset of 5.
generate_shape_sequence_modulus_A_bare(t, local) == PyMod(t + local, 5)

\* modulus_A = 5 + ((test_id + local) % 5) (engine).
generate_shape_sequence_modulus_A(t, local) == 5 + PyMod(t + local, 5)

\* modulus_B = 6 + ((2 * test_id + local) % 5) (engine).
generate_shape_sequence_modulus_B(t, local) == 6 + PyMod(2 * t + local, 5)

\* One count of the engine's loop: (base + (k - 1) * step) % modulus, with 0
\* replaced by modulus.
generate_shape_sequence_count(base, step, modulus, k) ==
    LET a == PyMod(base + (k - 1) * step, modulus)
    IN IF a = 0 THEN modulus ELSE a

generate_shape_sequence_question_locals(t, qi) ==
    LET local == qi - 80
        modulus_A == generate_shape_sequence_modulus_A(t, local)
        modulus_B == generate_shape_sequence_modulus_B(t, local)
        base_A == 1 + PyMod(t + 2 * local, modulus_A)
        base_B == 1 + PyMod(2 * t + 3 * local, modulus_B)
        step_A == 1 + PyMod(3 * t + local, modulus_A)
        step_B == 1 + PyMod(4 * t + 2 * local, modulus_B)
        iA == PyMod(t + local, 3)
        iB == PyMod(2 * t + local, 3)
        counts_A == [k \in 1..4 |->
                       generate_shape_sequence_count(base_A, step_A, modulus_A, k)]
        counts_B == [k \in 1..4 |->
                       generate_shape_sequence_count(base_B, step_B, modulus_B, k)]
    IN [local |-> local, modulus_A |-> modulus_A, modulus_B |-> modulus_B,
        base_A |-> base_A, base_B |-> base_B,
        step_A |-> step_A, step_B |-> step_B,
        shapeA |-> PyIndex(shapeA_names, iA),
        shapeB |-> PyIndex(shapeB_names, iB),
        counts_A |-> counts_A, counts_B |-> counts_B,
        divisors |-> <<5, 5, modulus_A, modulus_B, modulus_A, modulus_B, 3, 3,
                       modulus_A, modulus_B>>,
        indexings |-> << <<iA, Len(shapeA_names)>>, <<iB, Len(shapeB_names)>>,
                         <<0, 4>>, <<1, 4>>, <<2, 4>>, <<3, 4>> >>]

generate_shape_sequence_question(t, qi) ==
    LET L == generate_shape_sequence_question_locals(t, qi)
        f == Faults(L.divisors, L.indexings)
    IN IF f # "none" THEN Raise(f)
       ELSE Return([test_id |-> t, question_idx |-> qi,
                    domain |-> "shape_sequence_coupled_modulo_hard",
                    prompt |-> <<Str(t), Str(qi),
                                 [i \in 1..4 |->
                                    <<Str(i), Str(L.counts_A[i]), L.shapeA,
                                      Str(L.counts_B[i]), L.shapeB>>],
                                 L.shapeA, L.shapeB, L.shapeA, L.shapeB>>,
                    meta |-> [local_index |-> L.local,
                              modulus_A |-> L.modulus_A,
                              modulus_B |-> L.modulus_B,
                              shapeA |-> L.shapeA, shapeB |-> L.shapeB,
                              first_four_A |-> L.counts_A,
                              first_four_B |-> L.counts_B,
                              rule_hint |->
                    "two coupled linear progressions modulo different bases"]])

\* modulus_A = 5 + ((test_id + local) % 5) (solver).
_solve_shape_sequence_modulus_A(t, local) == 5 + PyMod(t + local, 5)

\* _solve_shape_sequence's modulus_B with the offset of modulus_A.
_solve_shape_sequence_modulus_B_offset5(t, local) == 5 + PyMod(2 * t + local, 5)

\* modulus_B = 6 + ((2 * test_id + local) % 5) (solver).
_solve_shape_sequence_modulus_B(t, local) == 6 + PyMod(2 * t + local, 5)

_solve_shape_sequence_locals(t, qi) ==
    LET local == qi - 80
        modulus_A == _solve_shape_sequence_modulus_A(t, local)
        modulus_B == _solve_shape_sequence_modulus_B(t, local)
        base_A == 1 + PyMod(t + 2 * local, modulus_A)
        base_B == 1 + PyMod(2 * t + 3 * local, modulus_B)
        step_A == 1 + PyMod(3 * t + local, modulus_A)
        step_B == 1 + PyMod(4 * t + 2 * local, modulus_B)
        k == 5
        a5r == PyMod(base_A + (k - 1) * step_A, modulus_A)
        b5r == PyMod(base_B + (k - 1) * step_B, modulus_B)
        a5 == IF a5r = 0 THEN modulus_A ELSE a5r
        b5 == IF b5r = 0 THEN modulus_B ELSE b5r
    IN [local |-> local, modulus_A |-> modulus_A, modulus_B |-> modulus_B,
        base_A |-> base_A, base_B |-> base_B,
        step_A |-> step_A, step_B |-> step_B, a5 |-> a5, b5 |-> b5,
        divisors |-> <<5, 5, modulus_A, modulus_B, modulus_A, modulus_B,
                       modulus_A, modulus_B>>,
        indexings |-> <<>>]

_solve_shape_sequence(t, qi) ==
    LET L == _solve_shape_sequence_locals(t, qi)
        f == Faults(L.divisors, L.indexings)
    IN IF f # "none" THEN Raise(f)
       ELSE Return(<<L.a5, L.b5>>)

(***************************************************************************)
(* Domain 9: self-referential questions (Q 91-100).                        *)
(***************************************************************************)

generate_self_referential_question_locals(t, qi) ==
    LET local == qi - 90
        digit == PyMod(t + local, 10)
        mode == PyMod(t + 2 * local, 4)
        condition_text ==
            IF mode = 0 THEN <<"contain the digit", Str(digit)>>
            ELSE IF mode = 1
                 THEN <<"contain the digit", Str(digit), "AND are even numbers">>
            ELSE IF mode = 2
                 THEN <<"contain the digit", Str(digit), "AND are prime numbers">>
            ELSE <<"contain the digit", Str(digit), "OR are divisible by 9">>
    IN [local |-> local, digit |-> digit, mode |-> mode,
        condition_text |-> condition_text,
        divisors |-> <<10, 4>>, indexings |-> <<>>]

generate_self_referential_question(t, qi) ==
    LET L == generate_self_referential_question_locals(t, qi)
        f == Faults(L.divisors, L.indexings)
    IN IF f # "none" THEN Raise(f)
       ELSE Return([test_id |-> t, question_idx |-> qi,
                    domain |-> "self_referential_hard",
                    prompt |-> <<Str(t), Str(qi), Str(QUESTIONS_PER_TEST),
                                 L.condition_text>>,
                    meta |-> [local_index |-> L.local, digit |-> L.digit,
                              mode |-> L.mode,
                              range |-> <<1, QUESTIONS_PER_TEST>>]])

RECURSIVE IntSqrtFrom(_, _)
IntSqrtFrom(n, r) == IF (r + 1) * (r + 1) > n THEN r ELSE IntSqrtFrom(n, r + 1)

\* int(n ** 0.5): the float square root is exact enough for the n the solver
\* passes (n <= QUESTIONS_PER_TEST) that truncation gives the integer root.
IntSqrt(n) == IntSqrtFrom(n, 0)

RECURSIVE _is_prime_loop_strict(_, _, _)
\* The while loop of _is_prime with the test f < r.
_is_prime_loop_strict(n, f, r) ==
    IF f < r
    THEN (IF PyMod(n, f) = 0 THEN FALSE
          ELSE _is_prime_loop_strict(n, f + 2, r))
    ELSE TRUE

RECURSIVE _is_prime_loop(_, _, _)
\* The while loop of _is_prime from f on.
_is_prime_loop(n, f, r) ==
    IF f <= r
    THEN (IF PyMod(n, f) = 0 THEN FALSE ELSE _is_prime_loop(n, f + 2, r))
    ELSE TRUE

_is_prime(n) ==
    IF n < 2 THEN FALSE
    ELSE IF PyMod(n, 2) = 0 THEN n = 2
    ELSE _is_prime_loop(n, 3, IntSqrt(n))

\* needle in hay, for two str values.
StrContains(hay, needle) ==
    \E i \in 0..(Len(hay) - Len(needle)) :
        \A j \in 1..Len(needle) : hay[i + j] = needle[j]

\* has_digit(n, d): str(d) in str(n).
has_digit(n, d) == StrContains(Str(n), Str(d))

_basic_self_ref_digit_mode(t, qi) ==
    LET local == qi - 90
        digit == PyMod(t + local, 10)
        mode == PyMod(t + 2 * local, 4)
    IN <<digit, mode>>

\* cond of the counting loop for one n.
_self_ref_cond(n, digit, mode) ==
    LET has_d == has_digit(n, digit)
    IN IF mode = 0 THEN has_d
       ELSE IF mode = 1 THEN has_d /\ PyMod(n, 2) = 0
       ELSE IF mode = 2 THEN has_d /\ _is_prime(n)
       ELSE has_d \/ PyMod(n, 9) = 0

\* The loop adds 1 for every n of range(1, QUESTIONS_PER_TEST + 1) with cond.
_self_ref_count_for_digit_mode(digit, mode) ==
    Cardinality({n \in 1..QUESTIONS_PER_TEST : _self_ref_cond(n, digit, mode)})

_solve_self_referential_locals(t, qi) ==
    LET dm == _basic_self_ref_digit_mode(t, qi)
    IN [local |-> qi - 90, digit |-> dm[1], mode |-> dm[2],
        divisors |-> <<10, 4, 2, 9>>, indexings |-> <<>>]

_solve_self_referential(t, qi) ==
    LET L == _solve_self_referential_locals(t, qi)
        f == Faults(L.divisors, L.indexings)
    IN IF f # "none" THEN Raise(f)
       ELSE Return(_self_ref_count_for_digit_mode(L.digit, L.mode))

(***************************************************************************)
(* Dispatchers and top-level iterators.                                    *)
(***************************************************************************)

\* generate_question_check with the upper bound of test_id excluded.
generate_question_check_excl(t, qi) ==
    IF ~(1 <= t /\ t < NUM_TESTS) THEN "ValueError"
    ELSE IF ~(1 <= qi /\ qi <= QUESTIONS_PER_TEST) THEN "ValueError"
    ELSE "none"

\* The two range checks at the head of generate_question.
generate_question_check(t, qi) ==
    IF ~(1 <= t /\ t <= NUM_TESTS) THEN "ValueError"
    ELSE IF ~(1 <= qi /\ qi <= QUESTIONS_PER_TEST) THEN "ValueError"
    ELSE "none"

\* The branch the if/elif chain of generate_question takes, numbered 1..9.
generate_question_band(qi) ==
    IF 1 <= qi /\ qi <= 15 THEN 1
    ELSE IF 16 <= qi /\ qi <= 25 THEN 2
    ELSE IF 26 <= qi /\ qi <= 35 THEN 3
    ELSE IF 36 <= qi /\ qi <= 45 THEN 4
    ELSE IF 46 <= qi /\ qi <= 55 THEN 5
    ELSE IF 56 <= qi /\ qi <= 70 THEN 6
    ELSE IF 71 <= qi /\ qi <= 80 THEN 7
    ELSE IF 81 <= qi /\ qi <= 90 THEN 8
    ELSE 9

\* The local variables of the handler generate_question dispatches to.
generate_question_locals(t, qi) ==
    LET d == generate_question_band(qi)
    IN CASE d = 1 -> generate_numeric_question_locals(t, qi)
         [] d = 2 -> generate_logic_question_locals(t, qi)
         [] d = 3 -> generate_spatial_like_question_locals(t, qi)
         [] d = 4 -> generate_letter_question_locals(t, qi)
         [] d = 5 -> generate_word_question_locals(t, qi)
         [] d = 6 -> generate_raven_matrix_question_locals(t, qi)
         [] d = 7 -> generate_base_conversion_question_locals(t, qi)
         [] d = 8 -> generate_shape_sequence_question_locals(t, qi)
         [] OTHER -> generate_self_referential_question_locals(t, qi)

generate_question(t, qi) ==
    LET d == generate_question_band(qi)
    IN IF generate_question_check(t, qi) # "none"
       THEN Raise(generate_question_check(t, qi))
       ELSE CASE d = 1 -> generate_numeric_question(t, qi)
              [] d = 2 -> generate_logic_question(t, qi)
              [] d = 3 -> generate_spatial_like_question(t, qi)
              [] d = 4 -> generate_letter_question(t, qi)
              [] d = 5 -> generate_word_question(t, qi)
              [] d = 6 -> generate_raven_matrix_question(t, qi)
              [] d = 7 -> generate_base_conversion_question(t, qi)
              [] d = 8 -> generate_shape_sequence_question(t, qi)
              [] OTHER -> generate_self_referential_question(t, qi)

_ensure_valid_indices(t, qi) ==
    IF ~(1 <= t /\ t <= NUM_TESTS) THEN "ValueError"
    ELSE IF ~(1 <= qi /\ qi <= QUESTIONS_PER_TEST) THEN "ValueError"
    ELSE "none"

\* solve_question_band with the Raven band ending at 69.
solve_question_band_short(qi) ==
    IF 1 <= qi /\ qi <= 15 THEN 1
    ELSE IF 16 <= qi /\ qi <= 25 THEN 2
    ELSE IF 26 <= qi /\ qi <= 35 THEN 3
    ELSE IF 36 <= qi /\ qi <= 45 THEN 4
    ELSE IF 46 <= qi /\ qi <= 55 THEN 5
    ELSE IF 56 <= qi /\ qi <= 69 THEN 6
    ELSE IF 71 <= qi /\ qi <= 80 THEN 7
    ELSE IF 81 <= qi /\ qi <= 90 THEN 8
    ELSE 9

\* The branch the if/elif chain of solve_question takes, numbered 1..9.
solve_question_band(qi) ==
    IF 1 <= qi /\ qi <= 15 THEN 1
    ELSE IF 16 <= qi /\ qi <= 25 THEN 2
    ELSE IF 26 <= qi /\ qi <= 35 THEN 3
    ELSE IF 36 <= qi /\ qi <= 45 THEN 4
    ELSE IF 46 <= qi /\ qi <= 55 THEN 5
    ELSE IF 56 <= qi /\ qi <= 70 THEN 6
    ELSE IF 71 <= qi /\ qi <= 80 THEN 7
    ELSE IF 81 <= qi /\ qi <= 90 THEN 8
    ELSE 9

\* The local variables of the handler solve_question dispatches to.
solve_question_locals(t, qi) ==
    LET d == solve_question_band(qi)
    IN CASE d = 1 -> _solve_numeric_locals(t, qi)
         [] d = 2 -> _solve_logic_locals(t, qi)
         [] d = 3 -> _solve_arrows_locals(t, qi)
         [] d = 4 -> _solve_letter_locals(t, qi)
         [] d = 5 -> _solve_word_locals(t, qi)
         [] d = 6 -> _solve_raven_locals(t, qi)
         [] d = 7 -> _solve_base_locals(t, qi)
         [] d = 8 -> _solve_shape_sequence_locals(t, qi)
         [] OTHER -> _solve_self_referential_locals(t, qi)

\* solve_question: _ensure_valid_indices, then the if/elif chain.
solve_question_body(t, qi) ==
    LET d == solve_question_band(qi)
    IN IF _ensure_valid_indices(t, qi) # "none"
       THEN Raise(_ensure_valid_indices(t, qi))
       ELSE CASE d = 1 -> _solve_numeric(t, qi)
              [] d = 2 -> _solve_logic(t, qi)
              [] d = 3 -> _solve_arrows(t, qi)
              [] d = 4 -> _solve_letter(t, qi)
              [] d = 5 -> _solve_word(t, qi)
              [] d = 6 -> _solve_raven(t, qi)
              [] d = 7 -> _solve_base(t, qi)
              [] d = 8 -> _solve_shape_sequence(t, qi)
              [] OTHER -> _solve_self_referential(t, qi)

\* solve_question answering from the previous call when that call had the
\* same question_idx (a memo keyed by question_idx alone).
solve_question_memo(t, qi) ==
    IF last.fn = "solve_question" /\ last.key[2] = qi
    THEN last.outcome
    ELSE solve_question_body(t, qi)

solve_question(t, qi) == solve_question_body(t, qi)

\* The list comprehension of generate_test: the first exception of a call
\* propagates, else the list of the questions.
generate_test(t) ==
    LET bad == {q \in 1..QUESTIONS_PER_TEST :
                    generate_question(t, q).raised # "none"}
    IN IF bad # {}
       THEN Raise(generate_question(t,
                      CHOOSE q \in bad : \A o \in bad : q <= o).raised)
       ELSE Return([q \in 1..QUESTIONS_PER_TEST |->
                        generate_question(t, q).value])

\* iter_all_tests_range written as range(NUM_TESTS + 1).
iter_all_tests_range_from0 == [start |-> 0, stop |-> NUM_TESTS + 1]

\* range(1, NUM_TESTS + 1) of iter_all_tests.
iter_all_tests_range == [start |-> 1, stop |-> NUM_TESTS + 1]

(***************************************************************************)
(* The callers: one call of each entry point on one key.                   *)
(***************************************************************************)

TestArgs == (1 - OutOfRange)..(NUM_TESTS + OutOfRange)
QuestionArgs == (1 - OutOfRange)..(QUESTIONS_PER_TEST + OutOfRange)

\* No generator object, no repeating caller.
IterNone == [state |-> "none", t |-> 0, count |-> 0]
LastNone ==
    [fn |-> "none", key |-> <<0, 0>>, outcome |-> NotCalled, repeat |-> FALSE]

\* The keys the repeating caller uses: several domains, two keys with the
\* same question_idx, the last key, and one out of range.
SampleKeys == {<<1, 1>>, <<1, 36>>, <<2, 36>>, <<1000, 100>>, <<0, 5>>}

FirstNone == [k \in SampleKeys |-> [gen |-> NotCalled, sol |-> NotCalled]]

\* No direct call of _to_base.
FrameNone ==
    [pc |-> "none", n |-> 0, base |-> 0, x |-> 0, out |-> <<>>,
     outcome |-> NotCalled]

Init ==
    /\ test_id \in TestArgs
    /\ question_idx \in QuestionArgs
    /\ question = NotCalled
    /\ answer = NotCalled
    /\ iter = IterNone
    /\ yielded = NotCalled
    /\ first = FirstNone
    /\ last = LastNone
    /\ frame = FrameNone

\* generate_question(test_id, question_idx) is called and returns or raises.
CallGenerate ==
    /\ question = NotCalled
    /\ question' = generate_question(test_id, question_idx)
    /\ UNCHANGED <<test_id, question_idx, answer, iter, yielded, first, last,
                 frame>>

\* solve_question(test_id, question_idx) is called and returns or raises.
CallSolve ==
    /\ answer = NotCalled
    /\ answer' = solve_question(test_id, question_idx)
    /\ UNCHANGED <<test_id, question_idx, question, iter, yielded, first, last,
                 frame>>

Next == CallGenerate \/ CallSolve

Spec == Init /\ [][Next]_vars

(***************************************************************************)
(* The consumer of iter_all_tests(): it may create a fresh generator       *)
(* object at any time and calls next() on the one it holds.  iter.t is the *)
(* loop variable of the suspended frame, iter.count the number of pairs    *)
(* the object has yielded.                                                 *)
(***************************************************************************)

InitIter ==
    /\ test_id = 0
    /\ question_idx = 0
    /\ question = NotCalled
    /\ answer = NotCalled
    /\ iter = IterNone
    /\ yielded = NotCalled
    /\ first = FirstNone
    /\ last = LastNone
    /\ frame = FrameNone

\* What the consumer keeps of a yielded list of questions: each question's
\* test_id, question_idx and domain, in the list's order.
Headers(qs) ==
    SubSeq([i \in 1..Len(qs) |->
              [test_id |-> qs[i].test_id, question_idx |-> qs[i].question_idx,
               domain |-> qs[i].domain]], 1, Len(qs))

\* iter_all_tests(): a new generator object whose body has not started.
IterCreate ==
    /\ iter' = [state |-> "created", t |-> 0, count |-> 0]
    /\ yielded' = NotCalled
    /\ UNCHANGED <<test_id, question_idx, question, answer, first, last, frame>>

\* next(): the frame runs to its next yield, to the end of the loop
\* (StopIteration) or to an exception of generate_test.
IterNext ==
    /\ iter.state \in {"created", "suspended"}
    /\ LET t == IF iter.state = "created" THEN iter_all_tests_range.start
                ELSE iter.t + 1
       IN IF t < iter_all_tests_range.stop
          THEN \E r \in {generate_test(t)} :
                  IF r.raised = "none"
                  THEN /\ iter' = [state |-> "suspended", t |-> t,
                                   count |-> iter.count + 1]
                       /\ yielded' = Return(<<t, Headers(r.value)>>)
                  ELSE /\ iter' = [iter EXCEPT !.state = "finished"]
                       /\ yielded' = Raise(r.raised)
          ELSE /\ iter' = [iter EXCEPT !.state = "finished"]
               /\ yielded' = Raise("StopIteration")
    /\ UNCHANGED <<test_id, question_idx, question, answer, first, last, frame>>

NextIter == IterCreate \/ IterNext

SpecIter == InitIter /\ [][NextIter]_vars

(***************************************************************************)
(* The repeating caller: any number of calls of both entry points on the   *)
(* sampled keys, in any order.  first and last only observe the calls;     *)
(* last.repeat tells that the key had been passed to that function before. *)
(***************************************************************************)

InitRepeat ==
    /\ test_id = 0
    /\ question_idx = 0
    /\ question = NotCalled
    /\ answer = NotCalled
    /\ iter = IterNone
    /\ yielded = NotCalled
    /\ first = FirstNone
    /\ last = LastNone
    /\ frame = FrameNone

RepeatGenerate ==
    /\ \E k \in SampleKeys :
          LET o == generate_question(k[1], k[2])
          IN /\ last' = [fn |-> "generate_question", key |-> k, outcome |-> o,
                          repeat |-> first[k].gen.raised # "not called"]
             /\ first' = IF first[k].gen.raised = "not called"
                         THEN [first EXCEPT ![k].gen = o]
                         ELSE first
    /\ UNCHANGED <<test_id, question_idx, question, answer, iter, yielded, frame>>

RepeatSolve ==
    /\ \E k \in SampleKeys :
          LET o == solve_question(k[1], k[2])
          IN /\ last' = [fn |-> "solve_question", key |-> k, outcome |-> o,
                          repeat |-> first[k].sol.raised # "not called"]
             /\ first' = IF first[k].sol.raised = "not called"
                         THEN [first EXCEPT ![k].sol = o]
                         ELSE first
    /\ UNCHANGED <<test_id, question_idx, question, answer, iter, yielded, frame>>

NextRepeat == RepeatGenerate \/ RepeatSolve

SpecRepeat == InitRepeat /\ [][NextRepeat]_vars

(***************************************************************************)
(* The base-conversion caller: from rest it either generates a question of *)
(* the base-conversion band (question_idx 71..80) and then solves it, or   *)
(* calls _to_base(n, base) directly, run here one loop iteration at a      *)
(* time.  frame.x and frame.out are the locals x and out of _to_base.      *)
(***************************************************************************)

\* The largest n and the largest base of the direct calls; 36 is the length
\* of digits, so direct calls reach a digit index outside digits.
ToBaseMaxN == 40
ToBaseMaxBase == 37

InitBase ==
    /\ test_id = 0
    /\ question_idx = 0
    /\ question = NotCalled
    /\ answer = NotCalled
    /\ iter = IterNone
    /\ yielded = NotCalled
    /\ first = FirstNone
    /\ last = LastNone
    /\ frame = FrameNone

\* generate_question(t, qi) on a key of the band.
BaseCallGenerate ==
    /\ frame.pc = "none"
    /\ question = NotCalled
    /\ \E t \in TestArgs, qi \in 71..80 :
          /\ test_id' = t
          /\ question_idx' = qi
          /\ question' = generate_question(t, qi)
    /\ UNCHANGED <<answer, iter, yielded, first, last, frame>>

\* solve_question on the key of the generated question.
BaseCallSolve ==
    /\ question # NotCalled
    /\ CallSolve

\* The direct call _to_base(n, base): a new frame at the function's entry.
ToBaseCall ==
    /\ frame.pc = "none"
    /\ question = NotCalled
    /\ \E n \in 0..ToBaseMaxN, base \in 2..ToBaseMaxBase :
          frame' = [pc |-> "entry", n |-> n, base |-> base, x |-> 0,
                    out |-> <<>>, outcome |-> NotCalled]
    /\ UNCHANGED <<test_id, question_idx, question, answer, iter, yielded,
                   first, last>>

\* if n == 0: return "0"; otherwise out = "", x = n.
ToBaseEnter ==
    /\ frame.pc = "entry"
    /\ frame' = IF frame.n = 0
                THEN [frame EXCEPT !.pc = "done", !.outcome = Return(<<"0">>)]
                ELSE [frame EXCEPT !.pc = "loop", !.out = <<>>, !.x = frame.n]
    /\ UNCHANGED <<test_id, question_idx, question, answer, iter, yielded,
                   first, last>>

\* One iteration of while x > 0: the new digit, then x //= base; an index
\* outside digits raises IndexError out of the function.
ToBaseIterate ==
    /\ frame.pc = "loop"
    /\ frame.x > 0
    /\ LET i == PyMod(frame.x, frame.base)
       IN IF PyIndex(digits, i) = "IndexError"
          THEN frame' = [frame EXCEPT !.pc = "done",
                                      !.outcome = Raise("IndexError")]
          ELSE frame' = [frame EXCEPT
                            !.out = _to_base_prepend(PyIndex(digits, i),
                                                     frame.out),
                            !.x = PyFloorDiv(frame.x, frame.base)]
    /\ UNCHANGED <<test_id, question_idx, question, answer, iter, yielded,
                   first, last>>

\* The loop test fails: return out.
ToBaseReturn ==
    /\ frame.pc = "loop"
    /\ ~(frame.x > 0)
    /\ frame' = [frame EXCEPT !.pc = "done", !.outcome = Return(frame.out)]
    /\ UNCHANGED <<test_id, question_idx, question, answer, iter, yielded,
                   first, last>>

NextBase ==
    \/ BaseCallGenerate
    \/ BaseCallSolve
    \/ ToBaseCall
    \/ ToBaseEnter
    \/ ToBaseIterate
    \/ ToBaseReturn

\* A started call keeps running: the interpreter takes a frame's next step.
SpecBase == InitBase /\ [][NextBase]_vars /\ WF_vars(NextBase)

(***************************************************************************)
(* Properties.                                                             *)
(***************************************************************************)

\* The key of the state is in the documented ranges.
ValidKey ==
    /\ 1 <= test_id /\ test_id <= 1000
    /\ 1 <= question_idx /\ question_idx <= 100

Generated == question.raised # "not called"
Solved == answer.raised # "not called"

\* C1: generate_question and solve_question raise the input-validation error
\* (ValueError) exactly when test_id is outside 1..1000 or question_idx is
\* outside 1..100, return otherwise, and so accept the same set of keys.
C1_RangeValidation ==
    /\ Generated =>
          question.raised = (IF ValidKey THEN "none" ELSE "ValueError")
    /\ Solved =>
          answer.raised = (IF ValidKey THEN "none" ELSE "ValueError")
    /\ (Generated /\ Solved) =>
          ((question.raised = "none") <=> (answer.raised = "none"))

\* Both calls have rejected test_id = 1001 with an in-range question_idx.
C1_Witness ==
    /\ test_id = 1001
    /\ question_idx = 100
    /\ question.raised = "ValueError"
    /\ answer.raised = "ValueError"

\* The documented bands: first index, last index, size and domain tag.
BandFirst == <<1, 16, 26, 36, 46, 56, 71, 81, 91>>
BandLast == <<15, 25, 35, 45, 55, 70, 80, 90, 100>>
BandSize == <<15, 10, 10, 10, 10, 15, 10, 10, 10>>
BandDomain ==
    <<"numeric_sequence_hard", "nested_logic_hard", "dual_arrow_cycle_hard",
      "letter_analogy_hard", "word_arithmetic_hard", "raven_matrix_hard",
      "base_conversion_hard", "shape_sequence_coupled_modulo_hard",
      "self_referential_hard">>

\* The documented bands are contiguous from 1 to 100 with the stated sizes.
BandsPartition ==
    /\ BandFirst[1] = 1
    /\ BandLast[9] = 100
    /\ \A d \in 1..8 : BandFirst[d + 1] = BandLast[d] + 1
    /\ \A d \in 1..9 : BandLast[d] - BandFirst[d] + 1 = BandSize[d]

\* C2: for every question_idx in 1..100 both dispatchers take the branch of
\* the same domain, that branch is the documented band holding question_idx
\* (bands disjoint, covering 1..100, sizes 15/10/10/10/10/15/10/10/10), and
\* the local index of both handlers is question_idx minus the band's offset,
\* within 1..band size.
C2_DispatchAgrees ==
    (ValidKey /\ question.raised = "none" /\ answer.raised = "none") =>
        LET g == generate_question_band(question_idx)
            v == solve_question_band(question_idx)
            gl == question.value.meta.local_index
            vl == solve_question_locals(test_id, question_idx).local
        IN /\ BandsPartition
           /\ g = v
           /\ BandFirst[g] <= question_idx /\ question_idx <= BandLast[g]
           /\ question.value.domain = BandDomain[g]
           /\ gl = question_idx - (BandFirst[g] - 1)
           /\ vl = gl
           /\ 1 <= gl /\ gl <= BandSize[g]

\* Both calls have returned for the last index of the Raven band.
C2_Witness ==
    /\ test_id = 7
    /\ question_idx = 70
    /\ question.raised = "none"
    /\ answer.raised = "none"
    /\ question.value.domain = "raven_matrix_hard"
    /\ question.value.meta.local_index = 15

BothReturned ==
    ValidKey /\ question.raised = "none" /\ answer.raised = "none"

\* The band of the state's question_idx, by the generator's dispatch.
Band == generate_question_band(question_idx)

\* The letter-domain meta equals the solver's parameters, and the answer
\* recomputed from the meta alone is the solver's answer.
LetterMetaAgrees ==
    LET m == question.value.meta
        S == _solve_letter_locals(test_id, question_idx)
    IN /\ m.a_mod_26 = S.a
       /\ m.b_mod_26 = S.b
       /\ m.example_input_index = S.x1
       /\ m.query_input_index = S.x2
       /\ Alphabet[((m.a_mod_26 * m.query_input_index + m.b_mod_26) % 26) + 1]
            = answer.value

\* C3 as stated: the numeric meta carries base, alpha, beta and the two
\* parity offsets with the solver's values, and the letter meta's a, b, x1,
\* x2 equal the solver's.
C3_MetaCarriesParameters ==
    BothReturned =>
        LET m == question.value.meta
            S == solve_question_locals(test_id, question_idx)
        IN /\ Band = 1 =>
                /\ {"base", "alpha", "beta", "even_offset", "odd_offset"}
                      \subseteq DOMAIN m
                /\ m.base = S.base
                /\ m.alpha = S.alpha
                /\ m.beta = S.beta
                /\ m.even_offset = S.even_offset
                /\ m.odd_offset = S.odd_offset
           /\ Band = 4 => LetterMetaAgrees

\* C3 amended: every parameter the meta embeds and the solver re-derives has
\* the same value in both (local_index in every domain; the six word
\* parameters; the missing cell; the two moduli; digit and mode); the letter
\* meta's a, b, x1, x2 equal the solver's and give the answer; the numeric
\* meta carries only local_index, length and pattern_hint, while the base,
\* alpha, beta and parity offsets the generator computes equal the solver's
\* and every displayed term is the solver's term at that position.
C3_EmbeddedParametersAgree ==
    BothReturned =>
        LET m == question.value.meta
            G == generate_question_locals(test_id, question_idx)
            S == solve_question_locals(test_id, question_idx)
        IN /\ m.local_index = S.local
           /\ Band = 1 =>
                /\ DOMAIN m = {"local_index", "length", "pattern_hint"}
                /\ m.length = S.length
                /\ G.base = S.base
                /\ G.alpha = S.alpha
                /\ G.beta = S.beta
                /\ G.even_offset = S.even_offset
                /\ G.odd_offset = S.odd_offset
                /\ \A i \in 1..m.length :
                      question.value.prompt[3][i] # <<"?">> =>
                          question.value.prompt[3][i] = Str(S.seq[i])
           /\ Band = 4 => LetterMetaAgrees
           /\ Band = 5 =>
                /\ m.base_items = S.base_items
                /\ m.daily_gain = S.daily_gain
                /\ m.days = S.days
                /\ m.bonus_factor = S.bonus_factor
                /\ m.loss = S.loss
                /\ m.groups = S.group
           /\ Band = 6 => m.missing_cell = [row |-> S.mr, col |-> S.mc]
           /\ Band = 8 =>
                /\ m.modulus_A = S.modulus_A
                /\ m.modulus_B = S.modulus_B
           /\ Band = 9 =>
                /\ m.digit = S.digit
                /\ m.mode = S.mode

\* Key (1, 36): a = 3, b = 4, x1 = 6, x2 = 19 in the meta, and the answer J.
C3_Witness ==
    /\ test_id = 1
    /\ question_idx = 36
    /\ question.raised = "none"
    /\ question.value.meta.a_mod_26 = 3
    /\ question.value.meta.b_mod_26 = 4
    /\ question.value.meta.example_input_index = 6
    /\ question.value.meta.query_input_index = 19
    /\ answer = Return("J")

\* C5: for every valid key both calls return (no error other than the range
\* error), every divisor and modulus they use is at least 2, and every index
\* into a fixed list is within 0..length-1.
C5_NoOtherError ==
    ValidKey =>
        /\ Generated =>
              LET G == generate_question_locals(test_id, question_idx)
              IN /\ question.raised = "none"
                 /\ \A i \in 1..Len(G.divisors) : G.divisors[i] >= 2
                 /\ \A i \in 1..Len(G.indexings) :
                       /\ 0 <= G.indexings[i][1]
                       /\ G.indexings[i][1] < G.indexings[i][2]
        /\ Solved =>
              LET S == solve_question_locals(test_id, question_idx)
              IN /\ answer.raised = "none"
                 /\ \A i \in 1..Len(S.divisors) : S.divisors[i] >= 2
                 /\ \A i \in 1..Len(S.indexings) :
                       /\ 0 <= S.indexings[i][1]
                       /\ S.indexings[i][1] < S.indexings[i][2]

\* Key (4, 46): group takes its least value 2 and the solver returns 15.
C5_Witness ==
    /\ test_id = 4
    /\ question_idx = 46
    /\ question.raised = "none"
    /\ question.value.meta.groups = 2
    /\ answer = Return(15)

\* C7: in the numeric domain the hidden 0-based position is 2, 3 or 4,
\* exactly one displayed term is "?", it stands at the hidden position, the
\* solver's answer is the generator's own term there, and putting the answer
\* in place of "?" gives the generator's full sequence.
C7_NumericAnswerFillsGap ==
    (BothReturned /\ Band = 1) =>
        LET G == generate_numeric_question_locals(test_id, question_idx)
            S == _solve_numeric_locals(test_id, question_idx)
            shown == question.value.prompt[3]
            holes == {i \in 1..Len(shown) : shown[i] = <<"?">>}
        IN /\ S.missing_pos \in {2, 3, 4}
           /\ S.missing_pos = 2 + (question_idx % 3)
           /\ Len(shown) = 7
           /\ holes = {S.missing_pos + 1}
           /\ answer.value = G.seq[S.missing_pos + 1]
           /\ \A i \in 1..7 :
                 (IF i \in holes THEN Str(answer.value) ELSE shown[i])
                    = Str(G.seq[i])

\* Key (1, 2): 32, 39, 50, 61, ?, 91, 110 with the answer 76.
C7_Witness ==
    /\ test_id = 1
    /\ question_idx = 2
    /\ question.raised = "none"
    /\ question.value.prompt[3]
         = <<Str(32), Str(39), Str(50), Str(61), <<"?">>, Str(91), Str(110)>>
    /\ answer = Return(76)

RECURSIVE Gcd(_, _)
Gcd(x, y) == IF y = 0 THEN x ELSE Gcd(y, x % y)

\* C8: in the letter domain the coefficient a is odd and invertible modulo
\* 26, so x |-> (a*x + b) mod 26 is a bijection on 0..25.
C8_CoefficientInvertible ==
    (BothReturned /\ Band = 4) =>
        LET a == question.value.meta.a_mod_26
            b == question.value.meta.b_mod_26
        IN /\ a = _solve_letter_locals(test_id, question_idx).a
           /\ a % 2 = 1
           /\ Gcd(a, 26) = 1
           /\ {(a * x + b) % 26 : x \in 0..25} = 0..25

\* The four documented templates, by (test_id + local) mod 4.
TemplateText ==
    <<"(p AND q) OR (NOT r)", "IF (p AND r) THEN (q XOR r)",
      "(p XOR q) AND (q OR r)", "IF (p OR q) THEN (NOT p AND r)">>

TemplateValue(k, p, q, r) ==
    CASE k = 0 -> (p /\ q) \/ ~r
      [] k = 1 -> (p /\ r) => ((q /\ ~r) \/ (~q /\ r))
      [] k = 2 -> ((p /\ ~q) \/ (~p /\ q)) /\ (q \/ r)
      [] k = 3 -> (p \/ q) => (~p /\ r)

\* C9: in the logic domain the answer is "TRUE" exactly when the template
\* selected by (test_id + local) mod 4 is true of p = (test_id even),
\* q = (local multiple of 3), r = (test_id + local has no divisor in
\* {2, 3, 5, 7}), "FALSE" otherwise, and the statement the generator renders
\* is that template.
C9_LogicAnswer ==
    (BothReturned /\ Band = 2) =>
        LET local == question_idx - 15
            k == (test_id + local) % 4
            p == test_id % 2 = 0
            q == local % 3 = 0
            r == \A d \in {2, 3, 5, 7} : (test_id + local) % d # 0
        IN /\ answer.value \in {"TRUE", "FALSE"}
           /\ (answer.value = "TRUE") <=> TemplateValue(k, p, q, r)
           /\ question.value.meta.statement_form = TemplateText[k + 1]
           /\ question.value.prompt[5] = TemplateText[k + 1]

\* Key (1, 16): template 2, answer FALSE.
C9_Witness ==
    /\ test_id = 1
    /\ question_idx = 16
    /\ question.raised = "none"
    /\ question.value.meta.statement_form = "(p XOR q) AND (q OR r)"
    /\ answer = Return("FALSE")

\* C10: in the arrow domain the answer is the pair of primary[(N1-1) mod 4]
\* and secondary[(N2-1) mod 4] with N1 = 7*test_id + 11*local and
\* N2 = 5*test_id - 3*local, the residue being in 0..3 also for N2 <= 0, so
\* the positions N and N + 4 give the same arrow.
C10_ArrowAnswer ==
    (BothReturned /\ Band = 3) =>
        LET local == question_idx - 25
            N1 == 7 * test_id + 11 * local
            N2 == 5 * test_id - 3 * local
            S == _solve_arrows_locals(test_id, question_idx)
        IN /\ S.N1 = N1 /\ S.N2 = N2
           /\ S.i1 \in 0..3 /\ S.i2 \in 0..3
           /\ S.i1 = (N1 - 1) % 4 /\ S.i2 = (N2 - 1) % 4
           /\ answer.value = <<primary[S.i1 + 1], secondary[S.i2 + 1]>>
           /\ _solve_arrows_index(N1 + 4) = S.i1
           /\ _solve_arrows_index(N2 + 4) = S.i2
           /\ question.value.meta.N1_expression
                = <<"7*", Str(test_id), " + 11*", Str(local)>>
           /\ question.value.meta.N2_expression
                = <<"5*", Str(test_id), " - 3*", Str(local)>>

\* Key (1, 35): local = 10, N2 = -25, answer (up, down-right).
C10_Witness ==
    /\ test_id = 1
    /\ question_idx = 35
    /\ question.raised = "none"
    /\ 5 * test_id - 3 * (question_idx - 25) = -25
    /\ answer = Return(<<"UP", "DOWNRIGHT">>)

C6_Enumeration ==
    /\ iter.count <= 1000
    /\ yielded.raised = "none" =>
          LET t == yielded.value[1]
              hs == yielded.value[2]
          IN /\ iter.state = "suspended"
             /\ t = iter.count
             /\ t = iter.t
             /\ Len(hs) = 100
             /\ \A i \in 1..100 :
                   hs[i].question_idx = i /\ hs[i].test_id = t
             /\ generate_test(t).raised = "none"
             /\ hs = Headers(generate_test(t).value)
    /\ iter.state = "suspended" => yielded.raised = "none"
    /\ iter.state = "finished" =>
          /\ iter.count = 1000
          /\ iter.t = 1000
          /\ yielded = Raise("StopIteration")

\* The generator object is exhausted after its 1000th pair.
C6_Witness ==
    /\ iter.state = "finished"
    /\ iter.count = 1000
    /\ yielded = Raise("StopIteration")

\* C11: in the word-arithmetic domain the remaining total
\* (base_items + daily_gain*days)*bonus_factor - loss, computed from the
\* numbers the question displays, is non-negative and an exact multiple of
\* the number of teams, so the returned share times the number of teams is
\* that total.
C11_WordDivisionExact ==
    (BothReturned /\ Band = 5) =>
        LET m == question.value.meta
            total == (m.base_items + m.daily_gain * m.days) * m.bonus_factor
                        - m.loss
        IN /\ total = _solve_word_locals(test_id, question_idx).total
           /\ total >= 0
           /\ total % m.groups = 0
           /\ answer.value * m.groups = total

\* The cell string documented for row r, column c (0-based) of the matrix
\* with the given base indices.
RavenCell(base_idx, base_orient, base_fill, r, c) ==
    <<shapes[((base_idx + r + 2 * c) % 4) + 1],
      fills[((base_fill + r + c) % 3) + 1],
      orientations[((base_orient + 2 * r + c) % 4) + 1]>>

\* C12: in the Raven domain the hidden cell is (2,2), (1,1) or (0,2) as
\* (test_id + local) mod 3 is 0, 1 or 2; the displayed grid has the
\* placeholder in exactly that cell and the documented cell string in the
\* eight others; and the solver returns the documented cell string of the
\* hidden cell, which is the string the generator had there before
\* overwriting it, at the position recorded in meta.missing_cell.
C12_RavenAnswerIsHiddenCell ==
    (BothReturned /\ Band = 6) =>
        LET local == question_idx - 55
            G == generate_raven_matrix_question_locals(test_id, question_idx)
            mode == (test_id + local) % 3
            hidden == IF mode = 0 THEN <<2, 2>>
                      ELSE IF mode = 1 THEN <<1, 1>> ELSE <<0, 2>>
            mcell == question.value.meta.missing_cell
            shown == question.value.prompt[3]
            holes == {rc \in (0..2) \X (0..2) :
                         shown[rc[1] + 1][rc[2] + 1] = <<" ? ">>}
        IN /\ <<mcell.row, mcell.col>> = hidden
           /\ holes = {hidden}
           /\ \A rc \in ((0..2) \X (0..2)) \ {hidden} :
                 shown[rc[1] + 1][rc[2] + 1]
                    = RavenCell(G.base_idx, G.base_orient, G.base_fill,
                                rc[1], rc[2])
           /\ G.base_idx = (test_id + local) % 4
           /\ G.base_orient = (2 * test_id + local) % 4
           /\ G.base_fill = (3 * test_id + 2 * local) % 3
           /\ answer.value = G.full_grid[mcell.row + 1][mcell.col + 1]
           /\ answer.value = RavenCell(G.base_idx, G.base_orient, G.base_fill,
                                       hidden[1], hidden[2])

\* Key (1, 56): the top-right cell is hidden and the answer is the half-filled
\* circle at 90 degrees.
C12_Witness ==
    /\ test_id = 1
    /\ question_idx = 56
    /\ question.raised = "none"
    /\ question.value.meta.missing_cell = [row |-> 0, col |-> 2]
    /\ question.value.prompt[3][1][3] = <<" ? ">>
    /\ answer = Return(<<"CIRCLE", "HALF", "90">>)

\* The value of a character of the alphabet 0-9 then A-Z.
DigitValue(ch) == CHOOSE v \in 0..35 : digits[v + 1] = ch

RECURSIVE BaseValue(_, _)
\* The number a digit string denotes in the base, most-significant first.
BaseValue(str, base) ==
    IF str = <<>> THEN 0
    ELSE BaseValue(SubSeq(str, 1, Len(str) - 1), base) * base
            + DigitValue(str[Len(str)])

\* str is the numeral of N in the base: alphabet digits smaller than the
\* base, no leading zero unless it is "0" itself, and of value N.
NumeralOf(str, base, N) ==
    /\ Len(str) >= 1
    /\ \A k \in 1..Len(str) :
          /\ \E v \in 0..35 : digits[v + 1] = str[k]
          /\ DigitValue(str[k]) < base
    /\ (str[1] = "0") => (str = <<"0">>)
    /\ BaseValue(str, base) = N

\* C13, the answers: in the base-conversion domain the solver returns
\* N = 200 + 17*test_id + 11*local and each displayed string is the numeral
\* of N, without leading zero, in the base displayed with it.
C13_DisplayedNumerals ==
    (BothReturned /\ Band = 7) =>
        LET N == 200 + 17 * test_id + 11 * (question_idx - 70)
            m == question.value.meta
            shown == question.value.prompt
        IN /\ answer.value = N
           /\ N > 0
           /\ shown[3] = m.repr_x /\ shown[4] = Str(m.base_x)
           /\ shown[5] = m.repr_y /\ shown[6] = Str(m.base_y)
           /\ shown[8] = m.repr_z /\ shown[7] = Str(m.base_z)
           /\ NumeralOf(m.repr_x, m.base_x, N) /\ m.repr_x[1] # "0"
           /\ NumeralOf(m.repr_y, m.base_y, N) /\ m.repr_y[1] # "0"
           /\ NumeralOf(m.repr_z, m.base_z, N) /\ m.repr_z[1] # "0"

\* C13, the result of _to_base: a finished direct call with n = 0 returned
\* "0"; with a base within the alphabet it returned the numeral of n, the
\* same string the generator's use of _to_base gives.
C13_ToBaseResult ==
    (frame.pc = "done") =>
        /\ (frame.n = 0) => (frame.outcome = Return(<<"0">>))
        /\ (frame.base <= Len(digits)) =>
              /\ frame.outcome.raised = "none"
              /\ NumeralOf(frame.outcome.value, frame.base, frame.n)
              /\ frame.outcome.value = _to_base(frame.n, frame.base)
        /\ frame.outcome.raised \in {"none", "IndexError"}

\* C13, the loop: every iteration that stays in the loop strictly decreases
\* x and keeps it non-negative.
C13_ToBaseVariant ==
    (frame.pc = "loop" /\ frame'.pc = "loop") =>
        (0 <= frame'.x /\ frame'.x < frame.x)

\* C13: solve_question returns N and the three displayed strings are
\* numerals of N without leading zero in their stated bases; _to_base returns
\* "0" for 0 and every call of it with n >= 0 and base >= 2 terminates.
C13_BaseConversion ==
    /\ [](C13_DisplayedNumerals /\ C13_ToBaseResult)
    /\ [][C13_ToBaseVariant]_vars
    /\ (frame.pc = "entry") ~> (frame.pc = "done")

\* Key (2, 71): N = 245 is displayed as "365" in base 8.
C13_Witness ==
    /\ test_id = 2
    /\ question_idx = 71
    /\ question.raised = "none"
    /\ question.value.meta.base_x = 8
    /\ question.value.meta.repr_x = <<"3", "6", "5">>
    /\ answer = Return(245)

\* C14: in the base-conversion domain base_x, base_y and base_z lie in
\* 5..16 and base_x differs from base_y; base_y is the first formula's value
\* unless it collides with base_x, then the re-roll's value unless that
\* collides too, then 16.
C14_BasesDistinct ==
    (ValidKey /\ Generated /\ Band = 7) =>
        LET local == question_idx - 70
            m == question.value.meta
            y0 == 5 + ((2 * test_id + local) % 12)
            y1 == 5 + ((3 * test_id + local) % 12)
        IN /\ question.raised = "none"
           /\ m.base_x = 5 + ((test_id + local) % 12)
           /\ m.base_z = 5 + ((test_id + 2 * local) % 12)
           /\ m.base_x \in 5..16
           /\ m.base_y \in 5..16
           /\ m.base_z \in 5..16
           /\ m.base_x # m.base_y
           /\ m.base_y = IF y0 # m.base_x THEN y0
                         ELSE IF y1 # m.base_x THEN y1 ELSE 16

\* Key (12, 71): both formulas give base_x = 6 and base_y falls back to 16.
C14_Witness ==
    /\ test_id = 12
    /\ question_idx = 71
    /\ question.raised = "none"
    /\ 5 + ((2 * test_id + 1) % 12) = 6
    /\ 5 + ((3 * test_id + 1) % 12) = 6
    /\ question.value.meta.base_x = 6
    /\ question.value.meta.base_y = 16

\* x and y are congruent modulo m.
Congruent(x, y, m) == (x - y) % m = 0

\* C15: in the shape-sequence domain generator and solver use the same
\* moduli, bases and steps; every displayed count of figures 1..4 and both
\* counts returned for figure 5 lie in 1..modulus of their sequence; and the
\* returned pair continues the displayed progression: each count is
\* congruent to the previous figure's count plus the step.
C15_ShapeSequenceContinues ==
    (BothReturned /\ Band = 8) =>
        LET G == generate_shape_sequence_question_locals(test_id, question_idx)
            S == _solve_shape_sequence_locals(test_id, question_idx)
            m == question.value.meta
            A == m.first_four_A
            B == m.first_four_B
            lines == question.value.prompt[3]
            a5 == answer.value[1]
            b5 == answer.value[2]
        IN /\ m.modulus_A = S.modulus_A /\ m.modulus_B = S.modulus_B
           /\ G.base_A = S.base_A /\ G.base_B = S.base_B
           /\ G.step_A = S.step_A /\ G.step_B = S.step_B
           /\ Len(A) = 4 /\ Len(B) = 4
           /\ \A k \in 1..4 :
                 /\ A[k] \in 1..m.modulus_A
                 /\ B[k] \in 1..m.modulus_B
                 /\ lines[k][2] = Str(A[k])
                 /\ lines[k][4] = Str(B[k])
           /\ \A k \in 1..3 :
                 /\ Congruent(A[k + 1], A[k] + S.step_A, m.modulus_A)
                 /\ Congruent(B[k + 1], B[k] + S.step_B, m.modulus_B)
           /\ a5 \in 1..m.modulus_A
           /\ b5 \in 1..m.modulus_B
           /\ Congruent(a5, A[4] + S.step_A, m.modulus_A)
           /\ Congruent(b5, B[4] + S.step_B, m.modulus_B)

\* Key (1, 83): 8, 6, 4, 2 modulo 9 continues with residue 0, returned as 9;
\* 6, 5, 4, 3 modulo 6 continues with 2.
C15_Witness ==
    /\ test_id = 1
    /\ question_idx = 83
    /\ question.raised = "none"
    /\ question.value.meta.modulus_A = 9
    /\ question.value.meta.first_four_A = <<8, 6, 4, 2>>
    /\ question.value.meta.modulus_B = 6
    /\ question.value.meta.first_four_B = <<6, 5, 4, 3>>
    /\ answer = Return(<<9, 2>>)

\* The primes among the question numbers: more than 1 and without a divisor
\* strictly between 1 and themselves.
TruePrimes ==
    {n \in 1..QUESTIONS_PER_TEST :
        n > 1 /\ \A d \in 2..(n - 1) : n % d # 0}

\* The decimal digits of a question number.
DigitsOf(n) ==
    {(n \div p) % 10 : p \in {q \in {1, 10, 100} : q <= n}}

\* The question numbers the documented condition of the mode selects.
SelfRefSelected(digit, mode) ==
    {n \in 1..QUESTIONS_PER_TEST :
        IF mode = 0 THEN digit \in DigitsOf(n)
        ELSE IF mode = 1 THEN digit \in DigitsOf(n) /\ n % 2 = 0
        ELSE IF mode = 2 THEN digit \in DigitsOf(n) /\ n \in TruePrimes
        ELSE digit \in DigitsOf(n) \/ n % 9 = 0}

\* _is_prime is primality on 1..100.
IsPrimeAgrees ==
    \A n \in 1..QUESTIONS_PER_TEST : _is_prime(n) = (n \in TruePrimes)

\* C16: in the self-referential domain digit = (test_id + local) mod 10 and
\* mode = (test_id + 2*local) mod 4 in the question's meta and in the solver;
\* the solver returns the number of n in 1..100 that the mode's documented
\* condition selects; _is_prime agrees with primality on 1..100 (1 is not
\* prime, 2 is); and the result is in 0..100.
C16_SelfReferentialCount ==
    (BothReturned /\ Band = 9) =>
        LET local == question_idx - 90
            digit == (test_id + local) % 10
            mode == (test_id + 2 * local) % 4
            m == question.value.meta
            S == _solve_self_referential_locals(test_id, question_idx)
        IN /\ m.digit = digit /\ m.mode = mode
           /\ S.digit = digit /\ S.mode = mode
           /\ m.range = <<1, 100>>
           /\ answer.value = Cardinality(SelfRefSelected(digit, mode))
           /\ answer.value \in 0..100
           /\ IsPrimeAgrees
           /\ ~_is_prime(1) /\ _is_prime(2)

\* Key (8, 91): digit 9, mode 2; the primes with a 9 are 19, 29, 59, 79, 89
\* and 97, and the solver returns 6.
C16_Witness ==
    /\ test_id = 8
    /\ question_idx = 91
    /\ question.raised = "none"
    /\ question.value.meta.digit = 9
    /\ question.value.meta.mode = 2
    /\ SelfRefSelected(9, 2) = {19, 29, 59, 79, 89, 97}
    /\ answer = Return(6)

====
